---- MODULE Spec2Model ----
(***************************************************************************)
(* Model of combo_app.py: the Weaviate search tool (CustomWeaviateTool),   *)
(* the agent/task/crew definitions (WorkshopAgentsAndTasks) and the        *)
(* Streamlit script that runs the crew and renders its outputs.            *)
(*                                                                         *)
(* Python strings whose content matters (tool outputs, titles, exception   *)
(* messages) are sequences of one-character strings; the characters        *)
(* outside ASCII are written by code point ("U+1F4D8" is the book emoji,   *)
(* "U+274C" the cross mark).  "\n" is the line feed.                       *)
(***************************************************************************)
EXTENDS Integers, Sequences, FiniteSets, TLC

VARIABLES
    pc,          \* position of the Streamlit script run
    user_query,  \* value of the text input in the current script run
    button,      \* value st.button returned in the current script run
    rendered,    \* elements rendered by the current script run, in order
    workshop,    \* the WorkshopAgentsAndTasks object of the current run
    crew,        \* the Crew object of the current run
    result,      \* value returned by crew.kickoff()
    kickoff,     \* "not_called", "running", "returned" or "raised"
    escaped,     \* exception that left the script uncaught (NoExc if none)
    caught,      \* number of times the except clause of the script ran
    lastCall,    \* the last call of CustomWeaviateTool._run in this run
    toolCalls,   \* number of _run calls made by the recommender in this run
    netCalls,    \* number of connection attempts made in this run
    conns        \* every connection to Weaviate opened by the process

vars == <<pc, user_query, button, rendered, workshop, crew, result, kickoff,
          escaped, caught, lastCall, toolCalls, netCalls, conns>>

---------------------------------------------------------------------------
(* Bounds of the model *)

\* longest list of matching books the backend holds for a query
MaxMatches == 4
\* most tool calls the recommender agent makes in one run
MaxToolCalls == 2
\* most connections opened over the life of the process
MaxConns == 2

---------------------------------------------------------------------------
(* Strings *)

NL == "\n"

NoBooks == <<"N", "o", " ", "b", "o", "o", "k", "s", " ", "f", "o", "u", "n", "d", " ", "i", "n", " ", "W", "e", "a", "v", "i", "a", "t", "e", ".">>

ErrPrefix == <<"U+274C", " ", "E", "r", "r", "o", "r", " ", "q", "u", "e", "r", "y", "i", "n", "g", " ", "W", "e", "a", "v", "i", "a", "t", "e", ":", " ">>

Marker == <<"U+1F4D8", " ">>

UiErrPrefix == <<"U+274C", " ", "S", "o", "m", "e", "t", "h", "i", "n", "g", " ", "w", "e", "n", "t", " ", "w", "r", "o", "n", "g", ":", " ">>

\* titles the "Book" collection may hold; one of them spans two lines
Titles == { <<"B", "o", "o", "k", " ", "A">>,
            <<"B", "o", "o", "k", " ", "B">>,
            <<"A", "\n", "B">> }

\* values of the text input, and topics the recommender passes to its tool
Queries == {"", "climate change"}
Topics == {"", "climate change"}

\* exceptions (subclasses of Exception) by their message, str(e)
NoExc == [raised |-> FALSE, msg |-> <<>>]
Exceptions == { [raised |-> TRUE, msg |-> <<"t", "i", "m", "e", "o", "u", "t">>],
                [raised |-> TRUE, msg |-> <<>>] }

\* outputs the language model produces for the two tasks
AnalystOutputs == {"insights"}
FinalOutputs == {"recommendations"}

\* number of lines of a string: one more than its line feeds
Lines(s) == Cardinality({i \in DOMAIN s : s[i] = NL}) + 1

Min(a, b) == IF a < b THEN a ELSE b

RECURSIVE SeqsUpTo(_, _)
SeqsUpTo(S, n) ==
    IF n = 0 THEN { <<>> }
    ELSE LET shorter == SeqsUpTo(S, n - 1)
         IN shorter \cup { Append(s, x) : s \in shorter, x \in S }

---------------------------------------------------------------------------
(* The vector-search backend, as the tool sees it *)

\* what one call meets: a failing connection, a failing query, or an
\* answer drawn from the ordered list of books matching the topic
Envs ==
    { [kind |-> "connect_error", exc |-> e, matches |-> <<>>] : e \in Exceptions }
    \cup { [kind |-> "query_error", exc |-> e, matches |-> <<>>] : e \in Exceptions }
    \cup { [kind |-> "answer", exc |-> NoExc, matches |-> m] :
             m \in SeqsUpTo(Titles, MaxMatches) }

\* collection.query.near_text(query, limit): the nearest objects, at most limit
near_text(matches, query, limit) == SubSeq(matches, 1, Min(limit, Len(matches)))

---------------------------------------------------------------------------
(* CustomWeaviateTool *)

weaviate_tool == [name |-> "Weaviate Book Search Tool"]

\* fault variant: the limit argument left out (the client's default applies)
QueryBooks_no_limit(topic, matches) == near_text(matches, topic, 10)

\* results = collection.query.near_text(query=topic, limit=3)
QueryBooks(topic, matches) == near_text(matches, topic, 3)

\* "\n".join(parts)
RECURSIVE Join(_)
Join(parts) ==
    IF parts = <<>> THEN <<>>
    ELSE IF Len(parts) = 1 THEN parts[1]
    ELSE parts[1] \o <<NL>> \o Join(Tail(parts))

\* fault variant: the titles formatted in reverse order
FormatTitles_reversed(objects) ==
    Join([i \in 1..Len(objects) |-> Marker \o objects[Len(objects) + 1 - i]])

\* "\n".join(f"U+1F4D8 {obj.properties['title']}" for obj in results.objects)
FormatTitles(objects) ==
    Join([i \in 1..Len(objects) |-> Marker \o objects[i]])

\* fault variant: the test for an empty result set left out
FormatResults_no_empty_check(objects) == FormatTitles(objects)

\* if not results.objects: return "No books found in Weaviate." ; else the titles
FormatResults(objects) ==
    IF objects = <<>> THEN NoBooks ELSE FormatTitles(objects)

\* fault variant: the handler lets the exception through
HandleException_reraise(e) == [ret |-> <<>>, raised |-> TRUE]

\* except Exception as e: return f"U+274C Error querying Weaviate: {e}"
HandleException(e) == [ret |-> ErrPrefix \o e.msg, raised |-> FALSE]

\* _run(self, topic): the value returned (or raised |-> TRUE), and the
\* process's connections after the call; the connection opened by
\* connect_to_weaviate_cloud is never closed by the method
_run(topic, env, cs) ==
    IF env.kind = "connect_error"
    THEN [out |-> HandleException(env.exc), conns |-> cs]
    ELSE LET client == [open |-> TRUE]
             opened == Append(cs, client)
         IN IF env.kind = "query_error"
            THEN [out |-> HandleException(env.exc), conns |-> opened]
            ELSE [out |-> [ret |-> FormatResults(QueryBooks(topic, env.matches)),
                           raised |-> FALSE],
                  conns |-> opened]

---------------------------------------------------------------------------
(* WorkshopAgentsAndTasks *)

create_data_analyst_agent(q) ==
    [role |-> "Data Analyst",
     goal |-> <<"Generate insights and trends about '", q, "'.">>,
     tools |-> <<>>,
     model |-> "o3-mini"]

create_resource_recommender_agent(tool) ==
    [role |-> "Resource Recommender",
     goal |-> <<"Provide relevant books and resources based on semantic search.">>,
     tools |-> <<tool>>,
     model |-> "o3-mini"]

\* __init__(self, user_query)
WorkshopAgentsAndTasks(q) ==
    [user_query |-> q,
     weaviate_tool |-> weaviate_tool,
     data_analyst_agent |-> create_data_analyst_agent(q),
     resource_recommender_agent |-> create_resource_recommender_agent(weaviate_tool)]

NoWorkshop ==
    [user_query |-> "", weaviate_tool |-> [name |-> ""],
     data_analyst_agent |-> [role |-> "", goal |-> <<>>, tools |-> <<>>, model |-> ""],
     resource_recommender_agent |-> [role |-> "", goal |-> <<>>, tools |-> <<>>, model |-> ""]]

create_data_analysis_task(self) ==
    [name |-> "Trend Analysis",
     description |-> <<"Analyze key patterns and trends related to '", self.user_query,
                       "' using your knowledge and reasoning abilities.">>,
     agent |-> self.data_analyst_agent,
     output |-> "None"]

create_resource_recommendation_task(self) ==
    [name |-> "Book Finder Task",
     description |-> <<"Use only the Weaviate tool to find high-quality books or articles about '",
                       self.user_query, "'. ">>,
     agent |-> self.resource_recommender_agent,
     output |-> "None"]

\* fault variant: the two tasks listed in the other order
create_workshop_crew_swapped(self) ==
    [agents |-> <<self.data_analyst_agent, self.resource_recommender_agent>>,
     tasks |-> <<create_resource_recommendation_task(self), create_data_analysis_task(self)>>,
     process |-> "sequential"]

create_workshop_crew(self) ==
    [agents |-> <<self.data_analyst_agent, self.resource_recommender_agent>>,
     tasks |-> <<create_data_analysis_task(self), create_resource_recommendation_task(self)>>,
     process |-> "sequential"]

NoCrew == [agents |-> <<>>, tasks |-> <<>>, process |-> ""]

---------------------------------------------------------------------------
(* Streamlit elements *)

st_info == [w |-> "info", body |-> <<>>]
st_success == [w |-> "success", body |-> <<>>]
st_header_analyst == [w |-> "analyst_heading", body |-> <<"### Data Analyst Output">>]
st_header_recommender == [w |-> "recommender_heading", body |-> <<"### Resource Recommender Output">>]
st_analyst_output(o) == [w |-> "analyst_output", body |-> <<o>>]
st_final_output(o) == [w |-> "final_output", body |-> <<o>>]
\* st.error(f"U+274C Something went wrong: {e}")
st_error(e) == [w |-> "error", body |-> UiErrPrefix \o e.msg]

Shown(kind) == \E i \in DOMAIN rendered : rendered[i].w = kind
Count(kind) == Cardinality({i \in DOMAIN rendered : rendered[i].w = kind})

NoCall == [called |-> FALSE, topic |-> "", env |-> [kind |-> "none", exc |-> NoExc, matches |-> <<>>],
           ret |-> <<>>, raised |-> FALSE, connsBefore |-> 0]

---------------------------------------------------------------------------
(* The script *)

Init ==
    /\ pc = "idle"
    /\ user_query = ""
    /\ button = FALSE
    /\ rendered = <<>>
    /\ workshop = NoWorkshop
    /\ crew = NoCrew
    /\ result = "None"
    /\ kickoff = "not_called"
    /\ escaped = NoExc
    /\ caught = 0
    /\ lastCall = NoCall
    /\ toolCalls = 0
    /\ netCalls = 0
    /\ conns = <<>>

\* fault variant: the guard tests the button alone
SubmitGuard_button_only(pressed, q) == pressed

\* if st.button("Run Analysis") and user_query:
SubmitGuard(pressed, q) == pressed /\ q # ""

\* One rerun of the script up to the guard: the page is redrawn from
\* scratch, the widgets deliver their values, the guard is evaluated and,
\* when it passes, the waiting indicator is rendered.
ScriptRun(q, pressed) ==
    /\ pc = "idle"
    /\ user_query' = q
    /\ button' = pressed
    /\ workshop' = NoWorkshop
    /\ crew' = NoCrew
    /\ result' = "None"
    /\ kickoff' = "not_called"
    /\ escaped' = NoExc
    /\ caught' = 0
    /\ lastCall' = NoCall
    /\ toolCalls' = 0
    /\ netCalls' = 0
    /\ IF SubmitGuard(pressed, q)
       THEN rendered' = <<st_info>> /\ pc' = "construct"
       ELSE rendered' = <<>> /\ pc' = "idle"
    /\ UNCHANGED conns

\* workshop = WorkshopAgentsAndTasks(user_query); crew = workshop.create_workshop_crew()
ConstructOk ==
    /\ pc = "construct"
    /\ workshop' = WorkshopAgentsAndTasks(user_query)
    /\ crew' = create_workshop_crew(workshop')
    /\ pc' = "kickoff"
    /\ UNCHANGED <<user_query, button, rendered, result, kickoff, escaped, caught,
                   lastCall, toolCalls, netCalls, conns>>

\* the same two statements raising: they stand before the try, so the
\* exception leaves the script
ConstructRaise(e) ==
    /\ pc = "construct"
    /\ escaped' = e
    /\ pc' = "idle"
    /\ UNCHANGED <<user_query, button, rendered, workshop, crew, result, kickoff,
                   caught, lastCall, toolCalls, netCalls, conns>>

\* crew.kickoff() is entered
KickoffBegin ==
    /\ pc = "kickoff"
    /\ kickoff' = "running"
    /\ pc' = "task1"
    /\ UNCHANGED <<user_query, button, rendered, workshop, crew, result, escaped,
                   caught, lastCall, toolCalls, netCalls, conns>>

\* the analyst task completes
Task1Done(o) ==
    /\ pc = "task1"
    /\ crew' = [crew EXCEPT !.tasks[1].output = o]
    /\ pc' = "task2"
    /\ UNCHANGED <<user_query, button, rendered, workshop, result, kickoff, escaped,
                   caught, lastCall, toolCalls, netCalls, conns>>

\* the recommender agent calls its tool
ToolCall(topic, env) ==
    /\ pc = "task2"
    /\ toolCalls < MaxToolCalls
    /\ env.kind # "connect_error" => Len(conns) < MaxConns
    /\ LET r == _run(topic, env, conns)
       IN /\ lastCall' = [called |-> TRUE, topic |-> topic, env |-> env,
                          ret |-> r.out.ret, raised |-> r.out.raised,
                          connsBefore |-> Len(conns)]
          /\ conns' = r.conns
    /\ toolCalls' = toolCalls + 1
    /\ netCalls' = netCalls + 1
    /\ UNCHANGED <<pc, user_query, button, rendered, workshop, crew, result, kickoff,
                   escaped, caught>>

\* the recommender task completes and kickoff returns its output
Task2Done(o) ==
    /\ pc = "task2"
    /\ crew' = [crew EXCEPT !.tasks[2].output = o]
    /\ result' = o
    /\ kickoff' = "returned"
    /\ pc' = "success"
    /\ UNCHANGED <<user_query, button, rendered, workshop, escaped, caught,
                   lastCall, toolCalls, netCalls, conns>>

\* except Exception as e: st.error(...)
ExceptClause(r, e) == Append(r, st_error(e))

\* fault variant: the handler also shows the analyst output computed so far
KickoffRaise_partial(e) ==
    /\ pc \in {"task1", "task2"}
    /\ kickoff' = "raised"
    /\ rendered' = IF crew.tasks[1].output # "None"
                   THEN ExceptClause(rendered \o <<st_header_analyst,
                                                   st_analyst_output(crew.tasks[1].output)>>, e)
                   ELSE ExceptClause(rendered, e)
    /\ caught' = caught + 1
    /\ pc' = "idle"
    /\ UNCHANGED <<user_query, button, workshop, crew, result, escaped,
                   lastCall, toolCalls, netCalls, conns>>

\* kickoff raises, during the first or the second task
KickoffRaise(e) ==
    /\ pc \in {"task1", "task2"}
    /\ kickoff' = "raised"
    /\ rendered' = ExceptClause(rendered, e)
    /\ caught' = caught + 1
    /\ pc' = "idle"
    /\ UNCHANGED <<user_query, button, workshop, crew, result, escaped,
                   lastCall, toolCalls, netCalls, conns>>

\* st.success(...) and the first section's heading
RenderSuccess ==
    /\ pc = "success"
    /\ rendered' = rendered \o <<st_success, st_header_analyst>>
    /\ pc' = "analyst_output"
    /\ UNCHANGED <<user_query, button, workshop, crew, result, kickoff, escaped,
                   caught, lastCall, toolCalls, netCalls, conns>>

\* st.markdown(crew.tasks[0].output) and the second section's heading
RenderAnalyst ==
    /\ pc = "analyst_output"
    /\ rendered' = rendered \o <<st_analyst_output(crew.tasks[1].output), st_header_recommender>>
    /\ pc' = "final_output"
    /\ UNCHANGED <<user_query, button, workshop, crew, result, kickoff, escaped,
                   caught, lastCall, toolCalls, netCalls, conns>>

\* st.markdown(result): the script run ends
RenderFinal ==
    /\ pc = "final_output"
    /\ rendered' = Append(rendered, st_final_output(result))
    /\ pc' = "idle"
    /\ UNCHANGED <<user_query, button, workshop, crew, result, kickoff, escaped,
                   caught, lastCall, toolCalls, netCalls, conns>>

\* reading or rendering one of the two outputs raises inside the try
RenderRaise(e) ==
    /\ pc \in {"analyst_output", "final_output"}
    /\ rendered' = ExceptClause(rendered, e)
    /\ caught' = caught + 1
    /\ pc' = "idle"
    /\ UNCHANGED <<user_query, button, workshop, crew, result, kickoff, escaped,
                   lastCall, toolCalls, netCalls, conns>>

Next ==
    \/ \E q \in Queries, pressed \in BOOLEAN : ScriptRun(q, pressed)
    \/ ConstructOk
    \/ \E e \in Exceptions : ConstructRaise(e)
    \/ KickoffBegin
    \/ \E o \in AnalystOutputs : Task1Done(o)
    \/ \E topic \in Topics, env \in Envs : ToolCall(topic, env)
    \/ \E o \in FinalOutputs : Task2Done(o)
    \/ \E e \in Exceptions : KickoffRaise(e)
    \/ RenderSuccess
    \/ RenderAnalyst
    \/ RenderFinal
    \/ \E e \in Exceptions : RenderRaise(e)

Spec == Init /\ [][Next]_vars

---------------------------------------------------------------------------
(* Properties *)

\* the lines of a string, as s.split("\n") gives them
RECURSIVE SplitLines(_)
SplitLines(s) ==
    IF \A i \in DOMAIN s : s[i] # NL THEN <<s>>
    ELSE LET k == CHOOSE i \in DOMAIN s : s[i] = NL /\ \A j \in 1..(i - 1) : s[j] # NL
         IN <<SubSeq(s, 1, k - 1)>> \o SplitLines(SubSeq(s, k + 1, Len(s)))

\* line feeds inside the titles of a list
RECURSIVE FeedsIn(_)
FeedsIn(ts) ==
    IF ts = <<>> THEN 0 ELSE (Lines(Head(ts)) - 1) + FeedsIn(Tail(ts))

Answered == lastCall.called /\ lastCall.env.kind = "answer"
Failed == lastCall.called /\ lastCall.env.kind \in {"connect_error", "query_error"}
Line(t) == Marker \o t

\* C1: a call of _run whose connection step or query step fails, whatever
\* the topic, returns normally, and what it returns is the error marker
\* text followed by the exception's message.
C1_RunReturnsErrorString ==
    Failed =>
        /\ ~lastCall.raised
        /\ lastCall.ret = ErrPrefix \o lastCall.env.exc.msg

C1_Witness ==
    /\ Failed
    /\ lastCall.topic = ""
    /\ lastCall.env.kind = "query_error"
    /\ lastCall.ret = ErrPrefix \o <<"t", "i", "m", "e", "o", "u", "t">>

\* C2: in a script run whose query is the empty string, pressed button or
\* not, nothing of the workflow happens: no workshop, no crew, no kickoff,
\* no tool call, no connection attempt, nothing rendered, and the script
\* is idle.
C2_EmptyQueryRunsNothing ==
    user_query = "" =>
        /\ pc = "idle"
        /\ rendered = <<>>
        /\ workshop = NoWorkshop
        /\ crew = NoCrew
        /\ kickoff = "not_called"
        /\ toolCalls = 0
        /\ netCalls = 0

C2_Witness ==
    /\ button
    /\ user_query = ""
    /\ pc = "idle"
    /\ Len(conns) > 0

\* C3: no exception raised by the workflow of a run that passed the guard
\* leaves the script; each is caught once and shown in an error banner
\* carrying its message, and the script is idle again.
C3_WorkflowExceptionsCaught ==
    /\ escaped = NoExc
    /\ kickoff = "raised" =>
          /\ caught = 1
          /\ Count("error") = 1
          /\ pc = "idle"

Expected(m) ==
    IF Len(m) = 1 THEN Line(m[1])
    ELSE IF Len(m) = 2 THEN Line(m[1]) \o <<NL>> \o Line(m[2])
    ELSE Line(m[1]) \o <<NL>> \o Line(m[2]) \o <<NL>> \o Line(m[3])

\* C5 as stated: for n titles, 1 <= n <= 3, whatever the titles are, the
\* returned string has exactly n lines, the i-th being the marker followed
\* by the i-th title.
C5_ExactlyNLines ==
    (Answered /\ Len(lastCall.env.matches) \in 1..3) =>
        LET m == lastCall.env.matches
        IN SplitLines(lastCall.ret) = [i \in 1..Len(m) |-> Line(m[i])]

\* C5 amended: for n titles, 1 <= n <= 3, the returned string is the
\* titles in backend order, each after the marker, joined by one line
\* feed; its number of lines is n plus the line feeds inside the titles, so
\* it has exactly n lines, the i-th being marker and i-th title, when no
\* title contains a line feed.
C5_JoinedTitles ==
    (Answered /\ Len(lastCall.env.matches) \in 1..3) =>
        LET m == lastCall.env.matches
        IN /\ ~lastCall.raised
           /\ lastCall.ret = Expected(m)
           /\ Lines(lastCall.ret) = Len(m) + FeedsIn(m)
           /\ FeedsIn(m) = 0 =>
                 SplitLines(lastCall.ret) = [i \in 1..Len(m) |-> Line(m[i])]

C5_Witness ==
    /\ Answered
    /\ lastCall.env.matches = << <<"B", "o", "o", "k", " ", "A">>, <<"B", "o", "o", "k", " ", "B">> >>
    /\ lastCall.ret = <<"U+1F4D8", " ", "B", "o", "o", "k", " ", "A", "\n",
                        "U+1F4D8", " ", "B", "o", "o", "k", " ", "B">>

\* C6: when the backend answers with no object, _run returns the fixed
\* sentence "No books found in Weaviate.", and returns it normally.
C6_NoBooksSentence ==
    (Answered /\ lastCall.env.matches = <<>>) =>
        /\ ~lastCall.raised
        /\ lastCall.ret = NoBooks
        /\ Len(lastCall.ret) = 27

C6_Witness ==
    /\ Answered
    /\ lastCall.env.matches = <<>>
    /\ lastCall.ret # <<>>
    /\ lastCall.ret[1] = "N"

Constructed == pc \in {"kickoff", "task1", "task2", "success", "analyst_output", "final_output"}

\* C7: once a run has built its crew, the query is not empty, the crew has
\* 2 agents and 2 tasks, the first task is the analyst's and its agent is
\* the data analyst, who has no tool, the second is the recommender's and
\* its agent is the resource recommender, whose only tool is the search
\* tool.
C7_TwoAgentsTwoTasks ==
    (Constructed \/ crew # NoCrew) =>
        /\ user_query # ""
        /\ Len(crew.agents) = 2
        /\ Len(crew.tasks) = 2
        /\ crew.process = "sequential"
        /\ crew.tasks[1].name = "Trend Analysis"
        /\ crew.tasks[1].agent = workshop.data_analyst_agent
        /\ crew.tasks[1].agent = crew.agents[1]
        /\ crew.tasks[1].agent.role = "Data Analyst"
        /\ crew.tasks[1].agent.tools = <<>>
        /\ crew.tasks[2].name = "Book Finder Task"
        /\ crew.tasks[2].agent = workshop.resource_recommender_agent
        /\ crew.tasks[2].agent = crew.agents[2]
        /\ crew.tasks[2].agent.role = "Resource Recommender"
        /\ crew.tasks[2].agent.tools = <<[name |-> "Weaviate Book Search Tool"]>>

C7_Witness ==
    /\ pc = "task2"
    /\ user_query = "climate change"
    /\ crew.tasks[1].output = "insights"
    /\ Len(crew.tasks) = 2

SuccessElements ==
    {"success", "analyst_heading", "analyst_output", "recommender_heading", "final_output"}

\* C8: when kickoff has raised, none of the success banner and the two
\* output sections is rendered, and whenever one of them is rendered
\* kickoff has returned.
C8_NothingShownOnFailure ==
    /\ kickoff = "raised" => \A k \in SuccessElements : ~Shown(k)
    /\ (\E k \in SuccessElements : Shown(k)) => kickoff = "returned"

C8_Witness ==
    /\ kickoff = "raised"
    /\ crew.tasks[1].output = "insights"
    /\ toolCalls > 0
    /\ Shown("error")

\* C9: each call of _run that connects opens one new connection, and no
\* connection opened by the tool is open once the call has returned.
C9_ConnectionsClosed ==
    /\ (lastCall.called /\ lastCall.env.kind # "connect_error") =>
          Len(conns) = lastCall.connsBefore + 1
    /\ \A i \in DOMAIN conns : ~conns[i].open

\* C10: a script run never renders both the success banner and the error
\* banner; when it ends it shows the success banner with both output
\* sections, or the error banner without the success banner.
C10_BannersExclusive ==
    /\ ~(Shown("success") /\ Shown("error"))
    /\ (pc = "idle" /\ Shown("success")) =>
          Shown("analyst_output") /\ Shown("final_output")

====
